---- MODULE Spec2Model ----
(***************************************************************************)
(* A model of the review-feedback aggregator of src/src/index.ts: the      *)
(* run() pipeline (fetch, reconcile, extract, filter, partition, render,   *)
(* publish), its pure helpers, and the two sinks it writes to.             *)
(*                                                                         *)
(* Text is modelled as a sequence of one-character strings, so that        *)
(* toLowerCase, includes and split are computed and not assumed.  A        *)
(* rendered document is the sequence of the elements pushed on lines;       *)
(* join('\n') puts each of them on a line of its own.                      *)
(***************************************************************************)
EXTENDS Integers, Sequences, FiniteSets, TLC

VARIABLES
    pc,                \* position of run() (one value per await)
    prNumber,          \* context.payload.pull_request?.number (0: none)
    feedbackFilePath,  \* input 'feedback-file' ("" disables the sink)
    postComment,       \* input 'post-comment'
    includeResolved,   \* input 'include-resolved'
    issueComments,     \* platform: the PR's general comments, oldest first
    file,              \* platform: what is at feedbackFilePath on the branch
    threads,           \* the review threads the GraphQL query reported
    comments,          \* run(): let comments, as assigned at lines 517 and 518
    merged,            \* run(): comments as assigned at line 528
    filtered,          \* run(): comments as assigned at line 531
    reviews,           \* run(): const reviews
    greptileComments,  \* run(): const greptileComments
    openComments,      \* run(): const openComments
    resolvedComments,  \* run(): const resolvedComments
    markdown,          \* run(): const markdown (the pushed lines)
    existingId,        \* postOrUpdateComment: const existingId (0: null)
    sha,               \* commitFeedbackFile / deleteFeedbackFile: version token read (<<>>: undefined)
    warnings,          \* number of core.warning calls
    failedAt,          \* the await whose rejection reached run()'s catch ("" none)
    commentWrite,      \* what this run did to the PR comment: "none" | "created" | "updated"
    fileWrite,         \* what this run did to the file: "none" | "created" | "updated" | "deleted"
    outputs,           \* core.setOutput values
    buf,               \* the argument of a pure function under check
    res                \* its result

vars == <<pc, prNumber, feedbackFilePath, postComment, includeResolved,
          issueComments, file, threads, comments, merged, filtered, reviews,
          greptileComments,
          openComments, resolvedComments, markdown, existingId, sha, warnings,
          failedAt,
          commentWrite, fileWrite, outputs, buf, res>>

-----------------------------------------------------------------------------
(* Bounds of the model *)

MaxInline == 2      \* inline review comments returned by the platform
MaxIssue == 2       \* general comments on the PR when the run starts
MaxThreads == 2     \* review threads returned by the GraphQL query
MaxPRComments == 102   \* general comments a PR can hold (above one page)
MaxGroupLen == 3    \* comments given to groupByFile
MaxRenderOpen == 2  \* open comments given to generateMarkdown
MaxRenderResolved == 2   \* resolved comments given to generateMarkdown
MaxBodyLen == 3     \* segments of the body given to parseGreptileComments

-----------------------------------------------------------------------------
(* Text *)

UpperChars == <<"A","B","C","D","E","F","G","H","I","J","K","L","M",
                "N","O","P","Q","R","S","T","U","V","W","X","Y","Z">>
LowerChars == <<"a","b","c","d","e","f","g","h","i","j","k","l","m",
                "n","o","p","q","r","s","t","u","v","w","x","y","z">>

ToLowerChar(c) ==
    IF \E i \in 1..Len(UpperChars) : UpperChars[i] = c
    THEN LowerChars[CHOOSE i \in 1..Len(UpperChars) : UpperChars[i] = c]
    ELSE c

\* String.prototype.toLowerCase
ToLowerCase(s) == [i \in 1..Len(s) |-> ToLowerChar(s[i])]

\* String.prototype.includes
Includes(s, sub) ==
    \E i \in 0..(Len(s) - Len(sub)) : SubSeq(s, i + 1, i + Len(sub)) = sub

\* The text as one string (template-literal interpolation)
RECURSIVE Str(_)
Str(cs) == IF cs = <<>> THEN "" ELSE Head(cs) \o Str(Tail(cs))

\* String.prototype.split('\n'): the pieces between the newlines
RECURSIVE SplitLines(_, _)
SplitLines(s, cur) ==
    IF s = <<>> THEN <<cur>>
    ELSE IF Head(s) = "\n" THEN <<cur>> \o SplitLines(Tail(s), <<>>)
    ELSE SplitLines(Tail(s), Append(cur, Head(s)))

RateLimitTerm == <<"r","a","t","e"," ","l","i","m","i","t">>
CodeRabbitTerm == <<"c","o","d","e","r","a","b","b","i","t">>

IsIgnoredOneTerm(body) ==
    Includes(ToLowerCase(body), RateLimitTerm) \/ Includes(ToLowerCase(body), CodeRabbitTerm)

isIgnoredBotComment(body) ==
    Includes(ToLowerCase(body), RateLimitTerm) /\ Includes(ToLowerCase(body), CodeRabbitTerm)

\* line: number | null; null and 0 are both falsy wherever the code reads it
NoLine == 0

\* String.prototype.trim (spaces and newlines)
IsSpace(c) == c \in {" ", "\n", "\t"}
RECURSIVE TrimStart(_)
TrimStart(s) == IF s # <<>> /\ IsSpace(Head(s)) THEN TrimStart(Tail(s)) ELSE s
RECURSIVE TrimEnd(_)
TrimEnd(s) ==
    IF s # <<>> /\ IsSpace(s[Len(s)]) THEN TrimEnd(SubSeq(s, 1, Len(s) - 1)) ELSE s
Trim(s) == TrimEnd(TrimStart(s))

\* String.prototype.replace(a, b) with a one-character string a: the first occurrence
RECURSIVE ReplaceFirst(_, _, _)
ReplaceFirst(s, a, b) ==
    IF s = <<>> THEN <<>>
    ELSE IF Head(s) = a THEN <<b>> \o Tail(s)
    ELSE <<Head(s)>> \o ReplaceFirst(Tail(s), a, b)

\* The elements of pool at the indices in S, in pool order
PickInOrder(pool, S) ==
    [i \in 1..Cardinality(S) |->
        pool[CHOOSE k \in S : Cardinality({j \in S : j <= k}) = i]]

\* What a list endpoint can return: at most max records of pool, oldest first
Responses(pool, max) ==
    {PickInOrder(pool, S) : S \in {T \in SUBSET (1..Len(pool)) : Cardinality(T) <= max}}

-----------------------------------------------------------------------------
(* interface ReviewComment (url and createdAt are carried but never read) *)

ReviewComment(id, path, line, body, user, isResolved) ==
    [id |-> id, path |-> path, line |-> line, body |-> body, user |-> user,
     isResolved |-> isResolved]

\* comment.user?.login || 'unknown'
LoginOrUnknown(login) == IF login = "" THEN "unknown" ELSE login

\* fetchReviewComments: one pushed record per platform record
NormalizeReviewComment(c) ==
    ReviewComment(c.id, c.path,
                  IF c.line # NoLine THEN c.line
                  ELSE IF c.original_line # NoLine THEN c.original_line ELSE NoLine,
                  c.body, LoginOrUnknown(c.login), FALSE)

fetchReviewComments(reviewComments) ==
    [i \in 1..Len(reviewComments) |-> NormalizeReviewComment(reviewComments[i])]

-----------------------------------------------------------------------------
(* fetchResolvedStatus *)

\* A thread of the query result: isResolved and comments(first: 1).nodes
Thread(isResolved, nodes) == [isResolved |-> isResolved, nodes |-> nodes]

ResolvedThreadIdsIgnoringFlag(ts) ==
    {ts[i].nodes[1] : i \in {j \in 1..Len(ts) : Len(ts[j].nodes) > 0}}

resolvedThreadIds(ts) ==
    {ts[i].nodes[1] : i \in {j \in 1..Len(ts) : ts[j].isResolved /\ Len(ts[j].nodes) > 0}}

\* comments.map(comment => ({...comment, isResolved: resolvedThreadIds.has(comment.id)}))
MarkResolved(cs, ids) ==
    [i \in 1..Len(cs) |-> [cs[i] EXCEPT !.isResolved = (cs[i].id \in ids)]]

-----------------------------------------------------------------------------
(* General (issue) comments and the structured-text extractor *)

\* A comment body is a sequence of segments:
\*   "text"    free text
\*   "phrase"  free text that contains "Prompt To Fix With AI" outside any block
\*   "block"   one match of promptBlockRegex; path, line and comment hold what
\*             the three field patterns capture in it (<<>>: no match)
\*   "marker"  the literal <!-- AGENT_CODE_REVIEW_FEEDBACK -->
\*   "md"      a document rendered by generateMarkdown
Seg(kind, path, line, comment, lines) ==
    [kind |-> kind, path |-> path, line |-> line, comment |-> comment, lines |-> lines]
TextSeg == Seg("text", <<>>, <<>>, <<>>, <<>>)
PhraseSeg == Seg("phrase", <<>>, <<>>, <<>>, <<>>)
BlockSeg(path, line, comment) == Seg("block", path, line, comment, <<>>)
MarkerSeg == Seg("marker", <<>>, <<>>, <<>>, <<>>)
MdSeg(lines) == Seg("md", <<>>, <<>>, <<>>, lines)

IssueComment(id, login, body) == [id |-> id, login |-> login, body |-> body]

\* body.includes('Prompt To Fix With AI')
IncludesPromptPhrase(body) ==
    \E i \in 1..Len(body) : body[i].kind \in {"block", "phrase"}

\* body?.includes(marker)
IncludesMarker(body) == \E i \in 1..Len(body) : body[i].kind = "marker"

Digits == <<"0","1","2","3","4","5","6","7","8","9">>
IsDigit(c) == \E i \in 1..Len(Digits) : Digits[i] = c
DigitValue(c) == (CHOOSE i \in 1..Len(Digits) : Digits[i] = c) - 1

\* parseInt(digits, 10)
RECURSIVE ParseInt(_, _)
ParseInt(ds, acc) ==
    IF ds = <<>> THEN acc ELSE ParseInt(Tail(ds), acc * 10 + DigitValue(Head(ds)))

\* The loop of parseGreptileComments over the block matches, comments so far in acc
RECURSIVE ParseBlocks(_, _, _, _)
ParseBlocks(commentId, body, user, acc) ==
    IF body = <<>> THEN acc
    ELSE LET b == Head(body)
             accepted == b.kind = "block" /\ b.path # <<>> /\ b.comment # <<>>
             c == ReviewComment(commentId + Len(acc),
                                Trim(b.path[1]),
                                IF b.line # <<>> THEN ParseInt(b.line[1], 0) ELSE NoLine,
                                Trim(b.comment[1]), user, FALSE)
         IN  ParseBlocks(commentId, Tail(body), user,
                         IF accepted THEN Append(acc, c) ELSE acc)

parseGreptileComments(commentId, body, user) == ParseBlocks(commentId, body, user, <<>>)

\* The three field patterns of parseGreptileComments on blockContent, the inner
\* text of one block.  All three carry the i flag and none is anchored: the
\* label matches at any position of the text, in either case.
PathLabel == <<"p","a","t","h",":">>
LineLabel == <<"l","i","n","e",":">>
CommentLabel == <<"c","o","m","m","e","n","t",":">>
ResolvePhrase == <<"h","o","w"," ","c","a","n"," ","i"," ","r","e","s","o","l","v","e">>

\* sub (in lower case) matches s at index i, ignoring case
MatchesAt(s, i, sub) ==
    /\ i >= 1
    /\ i + Len(sub) - 1 <= Len(s)
    /\ ToLowerCase(SubSeq(s, i, i + Len(sub) - 1)) = sub

\* The dot of a pattern matches any character but a line terminator
IsLineTerminator(c) == c = "\n"

\* \s* from index i, greedy: the index after the run of white space
RECURSIVE SkipSpace(_, _)
SkipSpace(s, i) == IF i <= Len(s) /\ IsSpace(s[i]) THEN SkipSpace(s, i + 1) ELSE i

\* .+ from index i, greedy: the index after the last character of the line
RECURSIVE LineEnd(_, _)
LineEnd(s, i) ==
    IF i <= Len(s) /\ ~IsLineTerminator(s[i]) THEN LineEnd(s, i + 1) ELSE i

\* \d+ from index i, greedy: the index after the run of digits
RECURSIVE DigitsEnd(_, _)
DigitsEnd(s, i) == IF i <= Len(s) /\ IsDigit(s[i]) THEN DigitsEnd(s, i + 1) ELSE i

\* The least element of a non-empty set of indices (the leftmost match)
Leftmost(S) == CHOOSE i \in S : \A j \in S : i <= j

\* Where (.+) can start after the label at i: \s* takes the white space (new
\* lines included) and gives back what it must for the dot to match one character
PathStarts(s, i) ==
    {j \in (i + Len(PathLabel))..SkipSpace(s, i + Len(PathLabel)) :
        j <= Len(s) /\ ~IsLineTerminator(s[j])}

\* blockContent.match(/Path:\s*(.+)/i): <<capture>>, or <<>> for null
pathMatch(s) ==
    LET at == {i \in 1..Len(s) : MatchesAt(s, i, PathLabel) /\ PathStarts(s, i) # {}}
    IN  IF at = {} THEN <<>>
        ELSE LET S == PathStarts(s, Leftmost(at))
                 j == CHOOSE k \in S : \A l \in S : l <= k
             IN  << SubSeq(s, j, LineEnd(s, j) - 1) >>

\* blockContent.match(/Line:\s*(\d+)(?::\d+)?/i): <<first number>>, or <<>> for null
lineMatch(s) ==
    LET DigitsAt(i) == SkipSpace(s, i + Len(LineLabel))
        at == {i \in 1..Len(s) :
                  /\ MatchesAt(s, i, LineLabel)
                  /\ DigitsEnd(s, DigitsAt(i)) > DigitsAt(i)}
    IN  IF at = {} THEN <<>>
        ELSE LET j == DigitsAt(Leftmost(at))
             IN  << SubSeq(s, j, DigitsEnd(s, j) - 1) >>

\* blockContent.match(/Comment:\s*([\s\S]*?)(?:How can I resolve|$)/i): the text
\* up to the first trailing phrase or the end of the block, or <<>> for null
commentMatch(s) ==
    LET at == {i \in 1..Len(s) : MatchesAt(s, i, CommentLabel)}
    IN  IF at = {} THEN <<>>
        ELSE LET j == SkipSpace(s, Leftmost(at) + Len(CommentLabel))
                 stops == {k \in j..Len(s) : MatchesAt(s, k, ResolvePhrase)}
                 e == IF stops = {} THEN Len(s) + 1 ELSE Leftmost(stops)
             IN  << SubSeq(s, j, e - 1) >>

\* One match of promptBlockRegex with inner text s, as the loop body reads it
BlockOf(s) == BlockSeg(pathMatch(s), lineMatch(s), commentMatch(s))

\* The per_page of both issues.listComments calls
PerPage == 100

\* octokit.rest.issues.listComments({per_page: 100}): the first page
listComments(all) == SubSeq(all, 1, IF Len(all) < PerPage THEN Len(all) ELSE PerPage)

RECURSIVE GreptileFrom(_)
GreptileFrom(list) ==
    IF list = <<>> THEN <<>>
    ELSE LET c == Head(list)
             user == LoginOrUnknown(c.login)
         IN  (IF user = "greptile-apps[bot]" /\ IncludesPromptPhrase(c.body)
              THEN parseGreptileComments(c.id, c.body, user) ELSE <<>>)
             \o GreptileFrom(Tail(list))

fetchGreptileCommentsFromIssueComments(all) == GreptileFrom(listComments(all))

-----------------------------------------------------------------------------
(* groupByFile *)

General == <<"g","e","n","e","r","a","l">>

\* comment.path || 'general'
GroupKey(c) == IF c.path = <<>> THEN General ELSE c.path

\* Names 'groups = {}' inherits from Object.prototype: groups[path] is then
\* truthy before any assignment and has no push method
ObjectPrototypeKeys ==
    {<<"c","o","n","s","t","r","u","c","t","o","r">>,
     <<"t","o","S","t","r","i","n","g">>,
     <<"v","a","l","u","e","O","f">>,
     <<"_","_","p","r","o","t","o","_","_">>}

\* groups[path].push(comment) raises a TypeError
GroupByFileThrows(cs) == \E i \in 1..Len(cs) : GroupKey(cs[i]) \in ObjectPrototypeKeys

\* A canonical array index (a decimal numeral without leading zero, below
\* 2^32 - 1): own keys of this form are enumerated first, ascending.  Every
\* numeral of up to nine digits is below 2^32 - 1; the paths of the model are
\* shorter than ten characters.
IsArrayIndex(k) ==
    /\ Len(k) >= 1
    /\ Len(k) <= 9
    /\ \A i \in 1..Len(k) : IsDigit(k[i])
    /\ (Len(k) = 1 \/ k[1] # "0")

\* The keys of groups in the order they were created
RECURSIVE CreationOrder(_, _)
CreationOrder(cs, acc) ==
    IF cs = <<>> THEN acc
    ELSE LET k == GroupKey(Head(cs))
         IN  CreationOrder(Tail(cs),
                           IF \E i \in 1..Len(acc) : acc[i] = k THEN acc ELSE Append(acc, k))

RECURSIVE AscendingIndexKeys(_)
AscendingIndexKeys(ks) ==
    IF ks = {} THEN <<>>
    ELSE LET m == CHOOSE k \in ks : \A o \in ks : ParseInt(k, 0) <= ParseInt(o, 0)
         IN  <<m>> \o AscendingIndexKeys(ks \ {m})

\* Object.keys / Object.entries order of an ordinary object
OwnKeysOrder(created) ==
    AscendingIndexKeys({created[i] : i \in {j \in 1..Len(created) : IsArrayIndex(created[j])}})
    \o SelectSeq(created, LAMBDA k : ~IsArrayIndex(k))

\* a.line || 0
LineOrZero(c) == IF c.line = NoLine THEN 0 ELSE c.line

\* Array.prototype.sort with (a, b) => (a.line || 0) - (b.line || 0): stable
RECURSIVE SortByLine(_)
SortByLine(cs) ==
    IF cs = <<>> THEN <<>>
    ELSE LET rest == SortByLine(SubSeq(cs, 1, Len(cs) - 1))
             c == cs[Len(cs)]
             n == Cardinality({i \in 1..Len(rest) : LineOrZero(rest[i]) <= LineOrZero(c)})
         IN  SubSeq(rest, 1, n) \o <<c>> \o SubSeq(rest, n + 1, Len(rest))

\* The entries of groupByFile(comments), as Object.entries lists them
groupByFile(cs) ==
    LET order == OwnKeysOrder(CreationOrder(cs, <<>>))
    IN  [i \in 1..Len(order) |->
            [path |-> order[i],
             comments |-> SortByLine(SelectSeq(cs, LAMBDA c : GroupKey(c) = order[i]))]]

-----------------------------------------------------------------------------
(* generateMarkdown: the elements pushed on lines, in order.  The model     *)
(* writes ' for the backquote and leaves out the middle dot before @user.   *)

Review(id, body, login, state) == [id |-> id, body |-> body, login |-> login, state |-> state]

\* fetchReviews: reviews with a non-blank body, user defaulted
fetchReviews(rs) ==
    LET kept == SelectSeq(rs, LAMBDA r : r.body # <<>> /\ Trim(r.body) # <<>>)
    IN  [i \in 1..Len(kept) |->
            [id |-> kept[i].id, body |-> kept[i].body,
             user |-> LoginOrUnknown(kept[i].login), state |-> kept[i].state]]

Pending == <<"P","E","N","D","I","N","G">>

\* r.body.length > 20 && r.state !== 'PENDING'
MinReviewBody == 20
IsSignificantReview(r) == Len(r.body) > MinReviewBody /\ r.state # Pending

\* bodyLines.map(l => prefix + l)
Quoted(prefix, body) ==
    LET bl == SplitLines(body, <<>>)
    IN  [i \in 1..Len(bl) |-> prefix \o Str(bl[i])]

HeaderLines(feedback) ==
    << "# PR #" \o ToString(feedback.prNumber) \o " Review Feedback",
       "",
       "> **For AI coding assistants:** Fix all unchecked items below. Each item includes",
       "> the file path, line number, reviewer, and their feedback.",
       ">",
       "> **PR:** [" \o feedback.prTitle \o "](" \o feedback.prUrl \o ")",
       "> **Last updated:** " \o feedback.updatedAt,
       "" >>

OpenCountText(openCount) ==
    "**Status:** " \o ToString(openCount) \o " open issue" \o (IF openCount # 1 THEN "s" ELSE "")

ResolvedCountText(resolvedCount) == " | " \o ToString(resolvedCount) \o " resolved"

\* lines.push('**Status:** ...'); if (includeResolved && resolvedCount > 0) lines.push(' | ...')
StatusLines(openCount, resolvedCount, incl) ==
    << OpenCountText(openCount) >>
    \o (IF incl /\ resolvedCount > 0 THEN << ResolvedCountText(resolvedCount) >> ELSE <<>>)

CommentItem(c) ==
    << "- [ ] **" \o (IF c.line # NoLine THEN "Line " \o ToString(c.line) ELSE "General")
       \o "** @" \o c.user,
       "" >>
    \o Quoted("  > ", c.body) \o << "" >>

RECURSIVE CommentItems(_)
CommentItems(cs) ==
    IF cs = <<>> THEN <<>> ELSE CommentItem(Head(cs)) \o CommentItems(Tail(cs))

RECURSIVE FileSections(_)
FileSections(groups) ==
    IF groups = <<>> THEN <<>>
    ELSE << "### '" \o Str(Head(groups).path) \o "'", "" >>
         \o CommentItems(Head(groups).comments) \o FileSections(Tail(groups))

OpenSection(open) ==
    IF Len(open) > 0
    THEN << "## Open Issues", "" >> \o FileSections(groupByFile(open))
    ELSE << "## No Open Issues", "", "All review comments have been resolved!", "" >>

ResolvedItem(c) ==
    "- [x] ~~'" \o Str(c.path)
    \o (IF c.line # NoLine THEN ":" \o ToString(c.line) ELSE "")
    \o "' @" \o c.user \o "~~"

ResolvedSection(resolved, incl) ==
    IF incl /\ Len(resolved) > 0
    THEN << "---", "", "## Resolved", "" >>
         \o [i \in 1..Len(resolved) |-> ResolvedItem(resolved[i])] \o << "" >>
    ELSE <<>>

ReviewItem(r) ==
    << "### @" \o r.user \o " (" \o Str(ReplaceFirst(ToLowerCase(r.state), "_", " ")) \o ")",
       "" >>
    \o Quoted("> ", r.body) \o << "" >>

RECURSIVE ReviewItems(_)
ReviewItems(rs) == IF rs = <<>> THEN <<>> ELSE ReviewItem(Head(rs)) \o ReviewItems(Tail(rs))

ReviewSection(rs) ==
    LET significantReviews == SelectSeq(rs, IsSignificantReview)
    IN  IF Len(significantReviews) > 0
        THEN << "---", "", "## Review Summaries", "" >> \o ReviewItems(significantReviews)
        ELSE <<>>

generateMarkdown(feedback, incl) ==
    HeaderLines(feedback)
    \o StatusLines(Len(feedback.openComments), Len(feedback.resolvedComments), incl)
    \o << "", "---", "" >>
    \o OpenSection(feedback.openComments)
    \o ResolvedSection(feedback.resolvedComments, incl)
    \o ReviewSection(feedback.reviews)

-----------------------------------------------------------------------------
(* What the platform holds: the records the list endpoints draw from *)

T_bgo == <<"b",".","g","o">>
T_ago == <<"a",".","g","o">>
T_fix == <<"F","i","x","\n","i","t">>
T_both == <<"C","o","d","e","R","a","b","b","i","t",":"," ","R","A","T","E"," ","l","i","m","i","t">>
T_rateOnly == <<"r","a","t","e"," ","l","i","m","i","t","?">>
T_rabbitOnly == <<" ","s","e","e"," ","C","o","d","e","r","a","b","b","i","t"," ">>
T_useConst == <<"U","s","e"," ","c","o","n","s","t">>
T_long == <<"P","l","e","a","s","e"," ","h","a","n","d","l","e"," ","e","r","r","o","r","s","!","!">>
T_constructor == <<"c","o","n","s","t","r","u","c","t","o","r">>
T_changes == <<"C","H","A","N","G","E","S","_","R","E","Q","U","E","S","T","E","D">>
T_commented == <<"C","O","M","M","E","N","T","E","D">>

PlatformReviewComment(id, path, line, original_line, body, login) ==
    [id |-> id, path |-> path, line |-> line, original_line |-> original_line,
     body |-> body, login |-> login]

ReviewCommentPool ==
    << PlatformReviewComment(1, T_bgo, 5, 5, T_fix, "alice"),
       PlatformReviewComment(2, T_ago, NoLine, 1, T_both, "coderabbitai"),
       PlatformReviewComment(3, T_bgo, 2, NoLine, T_rateOnly, "") >>

ThreadPool ==
    << Thread(TRUE, <<1>>), Thread(FALSE, <<2>>), Thread(TRUE, <<10>>), Thread(TRUE, <<>>) >>

\* What the GraphQL query can return: at most MaxThreads threads of the pool
ThreadResponses == Responses(ThreadPool, MaxThreads)

ReviewPool ==
    << Review(21, T_long, "bob", T_changes),
       Review(22, T_both, "", T_commented),
       Review(23, <<" ">>, "carol", Pending) >>

IssueCommentPool ==
    << IssueComment(10, "greptile-apps[bot]",
                    << TextSeg, BlockSeg(<<T_bgo>>, << <<"3">> >>, <<T_useConst>>),
                       BlockSeg(<<T_ago>>, <<>>, <<T_rabbitOnly>>) >>),
       IssueComment(11, "greptile-apps[bot]",
                    << BlockSeg(<<>>, << <<"7">> >>, <<T_fix>>),
                       BlockSeg(<< <<" ","7"," ">> >>, << <<"1","2">> >>, <<T_fix>>) >>),
       IssueComment(12, "greptile-apps[bot]",
                    << BlockSeg(<<T_constructor>>, <<>>, <<T_both>>),
                       BlockSeg(<<T_constructor>>, <<>>, <<T_fix>>) >>),
       IssueComment(13, "github-actions[bot]", << MarkerSeg, MdSeg(<<"old">>) >>),
       IssueComment(14, "greptile-apps[bot]", << TextSeg >>) >>

FeedbackFile == ".github/REVIEW_FEEDBACK.md"

FileAbsent == [kind |-> "absent", sha |-> 0, content |-> <<>>]
FileStates ==
    { FileAbsent,
      [kind |-> "file", sha |-> 1, content |-> <<"old">>],
      [kind |-> "dir", sha |-> 0, content |-> <<>>] }

-----------------------------------------------------------------------------
(* run() *)

Init ==
    /\ pc = "start"
    /\ prNumber \in {0, 123}
    /\ feedbackFilePath \in {"", FeedbackFile}
    /\ postComment \in BOOLEAN
    /\ includeResolved \in BOOLEAN
    /\ issueComments \in Responses(IssueCommentPool, MaxIssue)
    /\ file \in (IF feedbackFilePath = "" THEN {FileAbsent} ELSE FileStates)
    /\ threads = <<>>
    /\ comments = <<>>
    /\ merged = <<>>
    /\ filtered = <<>>
    /\ reviews = <<>>
    /\ greptileComments = <<>>
    /\ openComments = <<>>
    /\ resolvedComments = <<>>
    /\ markdown = <<>>
    /\ existingId = 0
    /\ sha = <<>>
    /\ warnings = 0
    /\ failedAt = ""
    /\ commentWrite = "none"
    /\ fileWrite = "none"
    /\ outputs = <<>>
    /\ buf = <<>>
    /\ res = <<>>

platform == <<issueComments, file>>
pure == <<buf, res>>
inputs == <<prNumber, feedbackFilePath, postComment, includeResolved>>
fetched == <<threads, comments, reviews, greptileComments>>
aggregated == <<merged, filtered, openComments, resolvedComments, markdown>>
written == <<commentWrite, fileWrite>>

\* catch (error) { core.setFailed(...) }: the await named at rejected, or a call
\* threw; nothing after it runs, and the locals of run() are gone
SetFailed(at) ==
    /\ pc' = "failed"
    /\ failedAt' = at
    /\ threads' = <<>>
    /\ comments' = <<>>
    /\ reviews' = <<>>
    /\ greptileComments' = <<>>
    /\ merged' = <<>>
    /\ filtered' = <<>>
    /\ openComments' = <<>>
    /\ resolvedComments' = <<>>
    /\ markdown' = <<>>
    /\ existingId' = 0
    /\ sha' = <<>>
    /\ UNCHANGED <<inputs, platform, warnings, written, outputs, pure>>

\* if (!prNumber) { core.setFailed(...); return }
Start ==
    /\ pc = "start"
    /\ \/ /\ prNumber = 0
          /\ SetFailed("prNumber")
       \/ /\ prNumber # 0
          /\ pc' = "pulls.get"
          /\ UNCHANGED <<inputs, platform, fetched, aggregated, existingId, sha,
                         warnings, failedAt, written, outputs, pure>>

\* await octokit.rest.pulls.get
PullsGet ==
    /\ pc = "pulls.get"
    /\ \/ /\ pc' = "listReviewComments"
          /\ UNCHANGED <<inputs, platform, fetched, aggregated, existingId, sha,
                         warnings, failedAt, written, outputs, pure>>
       \/ SetFailed("pulls.get")

\* comments = await fetchReviewComments(...)
ListReviewComments ==
    /\ pc = "listReviewComments"
    /\ \/ /\ \E resp \in Responses(ReviewCommentPool, MaxInline) :
                comments' = fetchReviewComments(resp)
          /\ pc' = "graphql"
          /\ UNCHANGED <<inputs, platform, threads, reviews, greptileComments,
                         aggregated, existingId, sha, warnings, failedAt, written,
                         outputs, pure>>
       \/ SetFailed("listReviewComments")

QueryFailedRethrows == SetFailed("graphql")

\* catch (error) { core.warning(...); return comments }
QueryFailed ==
    /\ warnings' = warnings + 1
    /\ pc' = "listReviews"
    /\ UNCHANGED <<inputs, platform, fetched, aggregated, existingId, sha, failedAt,
                   written, outputs, pure>>

\* comments = await fetchResolvedStatus(..., comments)
FetchResolvedStatus ==
    /\ pc = "graphql"
    /\ \/ /\ \E resp \in ThreadResponses :
                /\ threads' = resp
                /\ comments' = MarkResolved(comments, resolvedThreadIds(resp))
          /\ pc' = "listReviews"
          /\ UNCHANGED <<inputs, platform, reviews, greptileComments, aggregated,
                         existingId, sha, warnings, failedAt, written, outputs, pure>>
       \/ QueryFailed

\* const reviews = await fetchReviews(...)
ListReviews ==
    /\ pc = "listReviews"
    /\ \/ /\ reviews' = fetchReviews(ReviewPool)
          /\ pc' = "listIssueComments"
          /\ UNCHANGED <<inputs, platform, threads, comments, greptileComments,
                         aggregated, existingId, sha, warnings, failedAt, written,
                         outputs, pure>>
       \/ SetFailed("listReviews")

\* comments.filter((c) => !isIgnoredBotComment(c.body))
FilterIgnored(cs) == SelectSeq(cs, LAMBDA c : ~isIgnoredBotComment(c.body))

Feedback(open, resolved, rs) ==
    [prNumber |-> prNumber, prTitle |-> "Add auth", prUrl |-> "https://example.test/pr",
     openComments |-> open, resolvedComments |-> resolved, reviews |-> rs,
     updatedAt |-> "now"]

FileSinkPcAlwaysCommits(open) ==
    IF feedbackFilePath # "" THEN "commit.getContent" ELSE "setOutput"

\* if (feedbackFilePath) { if (openComments.length === 0) delete... else commit... }
FileSinkPc(open) ==
    IF feedbackFilePath # ""
    THEN (IF Len(open) = 0 THEN "delete.getContent" ELSE "commit.getContent")
    ELSE "setOutput"

\* if (postComment) { await postOrUpdateComment(...) }
PublishPc(open) == IF postComment THEN "findExistingComment" ELSE FileSinkPc(open)

\* greptileComments = await fetchGreptileCommentsFromIssueComments(...), then the
\* merge, the filter, the partition and generateMarkdown, up to the next await
ListIssueComments ==
    /\ pc = "listIssueComments"
    /\ LET greptile == fetchGreptileCommentsFromIssueComments(issueComments)
           all == comments \o greptile
           kept == FilterIgnored(all)
           open == SelectSeq(kept, LAMBDA c : ~c.isResolved)
           resolved == SelectSeq(kept, LAMBDA c : c.isResolved)
           filteredReviews == SelectSeq(reviews, LAMBDA r : ~isIgnoredBotComment(r.body))
       IN  \/ /\ ~(Len(open) > 0 /\ GroupByFileThrows(open))
              /\ greptileComments' = greptile
              /\ merged' = all
              /\ filtered' = kept
              /\ openComments' = open
              /\ resolvedComments' = resolved
              /\ markdown' = generateMarkdown(Feedback(open, resolved, filteredReviews),
                                              includeResolved)
              /\ pc' = PublishPc(open)
              /\ UNCHANGED <<inputs, platform, threads, comments, reviews, existingId,
                             sha, warnings, failedAt, written, outputs, pure>>
           \/ /\ Len(open) > 0 /\ GroupByFileThrows(open)
              /\ SetFailed("generateMarkdown")
           \/ SetFailed("listIssueComments")

-----------------------------------------------------------------------------
(* postOrUpdateComment *)

\* comments.find(c => c.body?.includes(marker)), then existing?.id || null
findExistingComment(all) ==
    LET page == listComments(all)
        hits == {i \in 1..Len(page) : IncludesMarker(page[i].body)}
    IN  IF hits = {} THEN 0
        ELSE page[CHOOSE i \in hits : \A j \in hits : i <= j].id

\* const existingId = await findExistingComment(...)
FindExistingComment ==
    /\ pc = "findExistingComment"
    /\ \/ /\ existingId' = findExistingComment(issueComments)
          /\ pc' = IF existingId' # 0 THEN "updateComment" ELSE "createComment"
          /\ UNCHANGED <<inputs, platform, fetched, aggregated, sha, warnings,
                         failedAt, written, outputs, pure>>
       \/ SetFailed("findExistingComment")

\* const body = marker + '\n' + markdown
MarkerBody(md) == << MarkerSeg, MdSeg(md) >>

\* issues.updateComment({comment_id, body})
updateComment(all, id, body) ==
    [i \in 1..Len(all) |-> IF all[i].id = id THEN [all[i] EXCEPT !.body = body] ELSE all[i]]

\* The id the platform gives the next comment: above every id in use
NextCommentId(all) ==
    1 + (CHOOSE m \in {IssueCommentPool[Len(IssueCommentPool)].id}
                      \cup {all[i].id : i \in 1..Len(all)} :
            \A i \in 1..Len(all) : all[i].id <= m)

\* issues.createComment({body})
createComment(all, body) ==
    Append(all, IssueComment(NextCommentId(all), "github-actions[bot]", body))

UpdateComment ==
    /\ pc = "updateComment"
    /\ \/ /\ issueComments' = updateComment(issueComments, existingId, MarkerBody(markdown))
          /\ commentWrite' = "updated"
          /\ pc' = FileSinkPc(openComments)
          /\ UNCHANGED <<inputs, file, fetched, aggregated, existingId, sha, warnings,
                         failedAt, fileWrite, outputs, pure>>
       \/ SetFailed("updateComment")

CreateCommentThenThrows ==
    /\ pc = "createComment"
    /\ issueComments' = createComment(issueComments, MarkerBody(markdown))
    /\ commentWrite' = "created"
    /\ pc' = "failed"
    /\ failedAt' = "createComment"
    /\ UNCHANGED <<inputs, file, fetched, aggregated, existingId, sha, warnings,
                   fileWrite, outputs, pure>>

CreateComment ==
    /\ pc = "createComment"
    /\ \/ /\ issueComments' = createComment(issueComments, MarkerBody(markdown))
          /\ commentWrite' = "created"
          /\ pc' = FileSinkPc(openComments)
          /\ UNCHANGED <<inputs, file, fetched, aggregated, existingId, sha, warnings,
                         failedAt, fileWrite, outputs, pure>>
       \/ SetFailed("createComment")

-----------------------------------------------------------------------------
(* commitFeedbackFile and deleteFeedbackFile *)

\* if ('sha' in existingFile): a file has one, a directory listing (an array) has none
HasSha(f) == f.kind = "file"

\* repos.getContent of commitFeedbackFile; a 404 is swallowed, any other error thrown
CommitGetContent ==
    /\ pc = "commit.getContent"
    /\ \/ /\ sha' = IF HasSha(file) THEN <<file.sha>> ELSE <<>>
          /\ pc' = "createOrUpdateFileContents"
          /\ UNCHANGED <<inputs, platform, fetched, aggregated, existingId, warnings,
                         failedAt, written, outputs, pure>>
       \/ SetFailed("commit.getContent")

\* The platform accepts the write when the path is free and no sha is given, or holds
\* a file whose sha is the one given
WriteAccepted(f, token) ==
    \/ f.kind = "absent" /\ token = <<>>
    \/ f.kind = "file" /\ token = <<f.sha>>

\* repos.createOrUpdateFileContents({content, sha})
CreateOrUpdateFileContents ==
    /\ pc = "createOrUpdateFileContents"
    /\ \/ /\ WriteAccepted(file, sha)
          /\ file' = [kind |-> "file", sha |-> file.sha + 1, content |-> markdown]
          /\ fileWrite' = IF file.kind = "file" THEN "updated" ELSE "created"
          /\ pc' = "setOutput"
          /\ UNCHANGED <<inputs, issueComments, fetched, aggregated, existingId, sha,
                         warnings, failedAt, commentWrite, outputs, pure>>
       \/ SetFailed("createOrUpdateFileContents")

\* repos.getContent of deleteFeedbackFile; without a sha, or on a 404, nothing is deleted
DeleteGetContent ==
    /\ pc = "delete.getContent"
    /\ \/ /\ sha' = IF HasSha(file) THEN <<file.sha>> ELSE <<>>
          /\ pc' = IF HasSha(file) THEN "deleteFile" ELSE "setOutput"
          /\ UNCHANGED <<inputs, platform, fetched, aggregated, existingId, warnings,
                         failedAt, written, outputs, pure>>
       \/ SetFailed("delete.getContent")

\* repos.deleteFile({sha})
DeleteFile ==
    /\ pc = "deleteFile"
    /\ \/ /\ WriteAccepted(file, sha)
          /\ file' = FileAbsent
          /\ fileWrite' = "deleted"
          /\ pc' = "setOutput"
          /\ UNCHANGED <<inputs, issueComments, fetched, aggregated, existingId, sha,
                         warnings, failedAt, commentWrite, outputs, pure>>
       \/ SetFailed("deleteFile")

\* core.setOutput('open-count' | 'resolved-count' | 'feedback-file', ...)
SetOutputs ==
    /\ pc = "setOutput"
    /\ outputs' = << [openCount |-> Len(openComments),
                      resolvedCount |-> Len(resolvedComments),
                      feedbackFile |-> feedbackFilePath] >>
    /\ pc' = "done"
    /\ UNCHANGED <<inputs, platform, fetched, aggregated, existingId, sha, warnings,
                   failedAt, written, pure>>

Next ==
    \/ Start
    \/ PullsGet
    \/ ListReviewComments
    \/ FetchResolvedStatus
    \/ ListReviews
    \/ ListIssueComments
    \/ FindExistingComment
    \/ UpdateComment
    \/ CreateComment
    \/ CommitGetContent
    \/ CreateOrUpdateFileContents
    \/ DeleteGetContent
    \/ DeleteFile
    \/ SetOutputs

Spec == Init /\ [][Next]_vars

-----------------------------------------------------------------------------
(* Repeated runs of postOrUpdateComment on one PR, among other comments *)

\* The variables of run() that a specification of one function leaves alone
NoRun ==
    /\ prNumber = 123
    /\ feedbackFilePath = ""
    /\ postComment = TRUE
    /\ includeResolved = TRUE
    /\ file = FileAbsent
    /\ threads = <<>>
    /\ comments = <<>>
    /\ merged = <<>>
    /\ filtered = <<>>
    /\ reviews = <<>>
    /\ greptileComments = <<>>
    /\ openComments = <<>>
    /\ resolvedComments = <<>>
    /\ sha = <<>>
    /\ warnings = 0
    /\ failedAt = ""
    /\ fileWrite = "none"
    /\ outputs = <<>>

\* The documents successive runs render
FreshDocuments == {<<"# PR #123 Review Feedback", "v1">>, <<"# PR #123 Review Feedback", "v2">>}

InitUpsert ==
    /\ NoRun
    /\ pc = "postOrUpdateComment"
    /\ issueComments = <<>>
    /\ markdown = <<>>
    /\ existingId = 0
    /\ commentWrite = "none"
    /\ buf = <<>>
    /\ res = <<>>

\* Somebody else comments on the PR
OtherComment ==
    /\ Len(issueComments) < MaxPRComments
    /\ issueComments' = Append(issueComments,
                               IssueComment(NextCommentId(issueComments), "alice", <<TextSeg>>))
    /\ UNCHANGED <<pc, inputs, file, fetched, aggregated, existingId, sha, warnings,
                   failedAt, written, outputs, pure>>

\* postOrUpdateComment(octokit, owner, repo, prNumber, markdown) of a run that completes
PostOrUpdateComment ==
    \E md \in FreshDocuments :
        LET id == findExistingComment(issueComments)
        IN  /\ markdown' = md
            /\ existingId' = id
            /\ IF id # 0
               THEN /\ issueComments' = updateComment(issueComments, id, MarkerBody(md))
                    /\ commentWrite' = "updated"
               ELSE /\ Len(issueComments) < MaxPRComments
                    /\ issueComments' = createComment(issueComments, MarkerBody(md))
                    /\ commentWrite' = "created"
            /\ UNCHANGED <<pc, inputs, file, threads, comments, reviews, greptileComments,
                           merged, filtered, openComments, resolvedComments, sha,
                           warnings, failedAt, fileWrite, outputs, pure>>

NextUpsert == OtherComment \/ PostOrUpdateComment

SpecUpsert == InitUpsert /\ [][NextUpsert]_vars

-----------------------------------------------------------------------------
(* groupByFile and generateMarkdown on their own *)

GroupPaths == {T_bgo, T_ago, <<>>, <<"7">>, T_constructor}
GroupLines == {NoLine, 1, 2, 5}

\* Sequences of up to MaxGroupLen open comments over the paths and lines
GroupInputs ==
    UNION {{[i \in 1..n |-> ReviewComment(i, f[i][1], f[i][2], <<"x">>, "alice", FALSE)] :
                f \in [1..n -> GroupPaths \X GroupLines]} : n \in 0..MaxGroupLen}

InitGroup ==
    /\ NoRun
    /\ pc = "groupByFile"
    /\ issueComments = <<>>
    /\ markdown = <<>>
    /\ existingId = 0
    /\ commentWrite = "none"
    /\ buf \in GroupInputs
    /\ res = <<>>

\* groupByFile(buf): the entries it returns, or the TypeError it throws
ApplyGroupByFile ==
    /\ pc = "groupByFile"
    /\ res' = IF GroupByFileThrows(buf)
              THEN [threw |-> TRUE, groups |-> <<>>]
              ELSE [threw |-> FALSE, groups |-> groupByFile(buf)]
    /\ pc' = "grouped"
    /\ UNCHANGED <<inputs, platform, fetched, aggregated, existingId, sha, warnings,
                   failedAt, written, outputs, buf>>

SpecGroup == InitGroup /\ [][ApplyGroupByFile]_vars

RenderOpenPool ==
    << ReviewComment(1, <<"s","r","c","/","a",".","g","o">>, 10, T_fix, "alice", FALSE),
       ReviewComment(2, <<"s","r","c","/","a",".","g","o">>, 5, T_useConst, "bob", FALSE),
       ReviewComment(3, <<>>, NoLine, T_rateOnly, "unknown", FALSE) >>

RenderResolvedPool ==
    << ReviewComment(4, <<"s","r","c","/","b",".","g","o">>, 1, T_fix, "carol", TRUE),
       ReviewComment(5, T_ago, NoLine, T_fix, "dave", TRUE) >>

InitRender ==
    /\ NoRun
    /\ pc = "generateMarkdown"
    /\ issueComments = <<>>
    /\ markdown = <<>>
    /\ existingId = 0
    /\ commentWrite = "none"
    /\ buf \in [open : Responses(RenderOpenPool, MaxRenderOpen),
                resolved : Responses(RenderResolvedPool, MaxRenderResolved),
                incl : BOOLEAN]
    /\ res = <<>>

\* generateMarkdown(feedback, includeResolved) for the snapshot in buf
ApplyGenerateMarkdown ==
    /\ pc = "generateMarkdown"
    /\ res' = generateMarkdown(Feedback(buf.open, buf.resolved, fetchReviews(ReviewPool)),
                               buf.incl)
    /\ pc' = "rendered"
    /\ UNCHANGED <<inputs, platform, fetched, aggregated, existingId, sha, warnings,
                   failedAt, written, outputs, buf>>

SpecRender == InitRender /\ [][ApplyGenerateMarkdown]_vars

-----------------------------------------------------------------------------
(* parseGreptileComments on its own: bodies whose blocks are given as text *)

NL == <<"\n">>
T_pathField == <<"P","a","t","h",":"," ">> \o T_ago
T_lineField == <<"L","i","n","e",":"," ","1","2",":","1","4">>
T_commentField == <<"C","o","m","m","e","n","t",":">> \o NL \o T_fix
T_howCanI == <<"H","o","w"," ","c","a","n"," ","I"," ","r","e","s","o","l","v","e",
               " ","t","h","i","s","?">>
T_seeLine == <<"C","o","m","m","e","n","t",":"," ","s","e","e"," ",
               "l","i","n","e",":"," ","4","2">>
T_badPath == <<"C","o","m","m","e","n","t",":"," ","b","a","d"," ",
               "p","a","t","h",":"," ","x">>

\* The inner texts of the blocks: the documented format
\*   Path: <filepath> / Line: <line>:<line> / Comment: / <comment text>
\* in full, without its line, without its path, without its comment, and two
\* blocks whose comment text names a line or a path in prose
BlockTexts ==
    { T_pathField \o NL \o T_lineField \o NL \o T_commentField \o NL \o NL \o T_howCanI,
      T_pathField \o NL \o T_commentField,
      T_lineField \o NL \o T_commentField,
      T_pathField \o NL \o T_lineField,
      T_pathField \o NL \o T_seeLine,
      T_badPath }

\* A piece of a body: free text, or one match of promptBlockRegex and its inner text
BodyPieces ==
    {[kind |-> "text", text |-> T_useConst]}
        \cup {[kind |-> "block", text |-> t] : t \in BlockTexts}

Bodies == UNION {[1..n -> BodyPieces] : n \in 0..MaxBodyLen}

\* The matches the while loop of parseGreptileComments sees in the body
Segments(body) ==
    [i \in 1..Len(body) |->
        IF body[i].kind = "block" THEN BlockOf(body[i].text) ELSE TextSeg]

InitExtract ==
    /\ NoRun
    /\ pc = "parseGreptileComments"
    /\ issueComments = <<>>
    /\ markdown = <<>>
    /\ existingId = 0
    /\ commentWrite = "none"
    /\ buf \in [id : {10}, body : Bodies]
    /\ res = <<>>

\* parseGreptileComments(comment.id, comment.body, user, ...) for the body in buf
ApplyParseGreptileComments ==
    /\ pc = "parseGreptileComments"
    /\ res' = parseGreptileComments(buf.id, Segments(buf.body), "greptile-apps[bot]")
    /\ pc' = "parsed"
    /\ UNCHANGED <<inputs, platform, fetched, aggregated, existingId, sha, warnings,
                   failedAt, written, outputs, buf>>

SpecExtract == InitExtract /\ [][ApplyParseGreptileComments]_vars

-----------------------------------------------------------------------------
(* Properties of run() *)

\* The run has passed the merge, the filter and the partition (lines 528 to 535)
Aggregated ==
    pc \in {"findExistingComment", "updateComment", "createComment", "commit.getContent",
            "createOrUpdateFileContents", "delete.getContent", "deleteFile", "setOutput",
            "done"}

\* The anchors (first-comment database ids) of the threads reported as resolved
ReportedResolvedAnchors ==
    {t.nodes[1] : t \in {threads[i] : i \in {j \in 1..Len(threads) :
                                             threads[j].isResolved /\ threads[j].nodes # <<>>}}}

IsInline(i) == i <= Len(comments)
IsExtracted(i) == i > Len(comments) /\ i <= Len(merged)

\* C1: when the side-channel query succeeded, an inline comment ends the run resolved
\* exactly when its id is the anchor of a thread reported as resolved; every comment
\* of the extractor ends it unresolved, is never in the resolved set, and is in the
\* open set whenever the noise filter keeps it, whatever its id.
C1_Reconciliation ==
    (Aggregated /\ warnings = 0) =>
        /\ \A i \in 1..Len(merged) :
              /\ IsInline(i) => (merged[i].isResolved <=> merged[i].id \in ReportedResolvedAnchors)
              /\ IsExtracted(i) =>
                    /\ ~merged[i].isResolved
                    /\ ~isIgnoredBotComment(merged[i].body) =>
                          \E k \in 1..Len(openComments) : openComments[k] = merged[i]
        /\ \A k \in 1..Len(resolvedComments) :
              \E i \in 1..Len(merged) : IsInline(i) /\ merged[i] = resolvedComments[k]
                                        /\ merged[i].id \in ReportedResolvedAnchors

\* C1 witness: a finished run in which one inline comment is resolved, another is
\* not, and an extracted comment whose id is a resolved anchor is in the open set
C1_Witness ==
    /\ pc = "done" /\ warnings = 0
    /\ \E i, j \in 1..Len(comments) : merged[i].isResolved /\ ~merged[j].isResolved
    /\ \E i \in 1..Len(merged) :
          /\ IsExtracted(i)
          /\ merged[i].id \in ReportedResolvedAnchors
          /\ \E k \in 1..Len(openComments) : openComments[k] = merged[i]

AllUnresolved(cs) == \A i \in 1..Len(cs) : ~cs[i].isResolved

\* The sinks the inputs enable have been written by a finished run
SinksPublished ==
    /\ postComment => commentWrite \in {"created", "updated"}
    /\ (feedbackFilePath # "" /\ Len(openComments) > 0) =>
          (fileWrite \in {"created", "updated"} /\ file.content = markdown)
    /\ (feedbackFilePath # "" /\ Len(openComments) = 0) => file.kind # "file"

\* C2: a failing resolution-status query never fails the run; it emits one warning,
\* leaves every comment unresolved as it was (so every filtered comment is open), and
\* the run goes on: when it finishes, the enabled sinks are published.
C2_QueryFailureDegrades ==
    /\ failedAt # "graphql"
    /\ warnings > 0 =>
          /\ warnings = 1
          /\ pc # "graphql"
          /\ threads = <<>>
          /\ AllUnresolved(comments)
          /\ Aggregated => (resolvedComments = <<>> /\ openComments = filtered
                            /\ AllUnresolved(filtered) /\ markdown # <<>>)
          /\ pc = "done" => SinksPublished

\* C2 witness: the query failed, and the run finished having fetched comments and
\* written both sinks
C2_Witness ==
    /\ pc = "done" /\ warnings = 1
    /\ Len(comments) > 1 /\ Len(openComments) > 1
    /\ commentWrite # "none" /\ fileWrite # "none"

\* Two characters that are equal, or the two cases of one letter
SameLetter(a, b) ==
    \/ a = b
    \/ \E i \in 1..Len(UpperChars) : {a, b} = {UpperChars[i], LowerChars[i]}

\* body contains term, the case of letters disregarded
ContainsIgnoringCase(body, term) ==
    \E i \in 0..(Len(body) - Len(term)) :
        \A k \in 1..Len(term) : SameLetter(body[i + k], term[k])

HasBothTerms(body) ==
    ContainsIgnoringCase(body, RateLimitTerm) /\ ContainsIgnoringCase(body, CodeRabbitTerm)

\* The number of comments among the first i of cs with the resolved flag of cs[i]
RankAmongAlike(cs, i) ==
    Cardinality({j \in 1..i : cs[j].isResolved = cs[i].isResolved})

\* C3: the filtered set is the merged set (inline then extracted) without exactly the
\* comments whose body contains both terms, case disregarded; the open and the
\* resolved set partition it: each filtered comment is in exactly one of them, by its
\* resolved flag, none lost or duplicated, and no excluded comment is in either.
C3_Partition ==
    Aggregated =>
        /\ merged = comments \o greptileComments
        /\ filtered = SelectSeq(merged, LAMBDA c : ~HasBothTerms(c.body))
        /\ Len(openComments) + Len(resolvedComments) = Len(filtered)
        /\ \A i \in 1..Len(filtered) :
              IF filtered[i].isResolved
              THEN resolvedComments[RankAmongAlike(filtered, i)] = filtered[i]
              ELSE openComments[RankAmongAlike(filtered, i)] = filtered[i]
        /\ \A k \in 1..Len(openComments) :
              ~openComments[k].isResolved /\ ~HasBothTerms(openComments[k].body)
        /\ \A k \in 1..Len(resolvedComments) :
              resolvedComments[k].isResolved /\ ~HasBothTerms(resolvedComments[k].body)

\* C3 witness: a finished run that excluded a comment with both terms, kept one with
\* only one of them, and has comments in the open and in the resolved set
C3_Witness ==
    /\ pc = "done"
    /\ \E i \in 1..Len(merged) : HasBothTerms(merged[i].body)
    /\ \E i \in 1..Len(filtered) :
          /\ ~HasBothTerms(filtered[i].body)
          /\ \/ ContainsIgnoringCase(filtered[i].body, RateLimitTerm)
             \/ ContainsIgnoringCase(filtered[i].body, CodeRabbitTerm)
    /\ openComments # <<>> /\ resolvedComments # <<>>

\* C4: no two comments of the merged set (inline, then extracted) have the same id
C4_UniqueIds ==
    Aggregated =>
        \A i, j \in 1..Len(merged) : i # j => merged[i].id # merged[j].id

\* The source records of the model have distinct platform ids
DistinctSourceIds ==
    /\ \A i, j \in 1..Len(ReviewCommentPool) :
          i # j => ReviewCommentPool[i].id # ReviewCommentPool[j].id
    /\ \A i, j \in 1..Len(IssueCommentPool) :
          i # j => IssueCommentPool[i].id # IssueCommentPool[j].id
    /\ \A i \in 1..Len(ReviewCommentPool) : \A j \in 1..Len(IssueCommentPool) :
          ReviewCommentPool[i].id # IssueCommentPool[j].id

\* C6: with a target path configured, a finished run leaves a file at the path exactly
\* when its open count is above zero.  With no open comment it deleted the file it
\* found, passing the sha it read, or wrote nothing when it found none; with an open
\* comment it created the file, or updated it with the sha it read, and the file holds
\* the rendered document.
C6_FileSink ==
    (pc = "done" /\ feedbackFilePath # "") =>
        /\ file.kind = "file" <=> Len(openComments) > 0
        /\ Len(openComments) = 0 =>
              \/ fileWrite = "deleted" /\ sha # <<>> /\ file = FileAbsent
              \/ fileWrite = "none" /\ sha = <<>> /\ file.kind # "file"
        /\ Len(openComments) > 0 =>
              /\ file.content = markdown
              /\ \/ fileWrite = "created" /\ sha = <<>>
                 \/ fileWrite = "updated" /\ sha = <<file.sha - 1>>

\* C6 witness: a finished run with no open comment and a resolved one deleted the file
C6_Witness ==
    /\ pc = "done" /\ feedbackFilePath # ""
    /\ openComments = <<>> /\ resolvedComments # <<>>
    /\ fileWrite = "deleted"

\* C7 as stated: a failed run has written neither sink
C7_NothingPublishedOnFailure ==
    pc = "failed" => (commentWrite = "none" /\ fileWrite = "none")

FileSinkCalls ==
    {"commit.getContent", "createOrUpdateFileContents", "delete.getContent", "deleteFile"}

\* C7 amended: a run fails exactly with a failure message; a failed run has not
\* written the file, and has written the PR comment only when the call that failed
\* is one of the file sink, after the comment upsert completed.
C7_FailureAfterCommentOnly ==
    /\ (pc = "failed") <=> (failedAt # "")
    /\ pc = "failed" =>
          /\ fileWrite = "none"
          /\ commentWrite # "none" => (postComment /\ failedAt \in FileSinkCalls)
          /\ failedAt \notin FileSinkCalls => commentWrite = "none"

\* C7 witness: the run failed in the fetch phase and neither sink was written
C7_Witness ==
    /\ pc = "failed" /\ failedAt = "listIssueComments"
    /\ postComment /\ feedbackFilePath # ""
    /\ commentWrite = "none" /\ fileWrite = "none"

\* C10: the feedback-file output names a path only when the run created or updated
\* the file at that path
C10_FeedbackFileOutput ==
    pc = "done" =>
        (outputs[1].feedbackFile # "" => fileWrite \in {"created", "updated"})

-----------------------------------------------------------------------------
(* Properties of postOrUpdateComment, generateMarkdown and groupByFile *)

MarkerComments == {i \in 1..Len(issueComments) : IncludesMarker(issueComments[i].body)}

\* C5: after any sequence of completed runs, among any other comments, the PR carries
\* at most one comment with the identity marker, and the last run left it holding the
\* marker and the document it rendered
C5_SingleMarkerComment ==
    /\ Cardinality(MarkerComments) <= 1
    /\ commentWrite # "none" =>
          \E i \in MarkerComments : issueComments[i].body = MarkerBody(markdown)

\* The line of the document that states the counts
StatusLineIndex == Len(HeaderLines(Feedback(<<>>, <<>>, <<>>))) + 1

\* C8: the status line of the document states the open count and, when includeResolved
\* is true and the resolved count is above zero, the resolved count on that same line
C8_StatusLine ==
    pc = "rendered" =>
        res[StatusLineIndex] =
            OpenCountText(Len(buf.open))
            \o (IF buf.incl /\ Len(buf.resolved) > 0
                THEN ResolvedCountText(Len(buf.resolved)) ELSE "")

\* The first position in buf of a comment of the group key k
FirstSeen(k) == CHOOSE i \in 1..Len(buf) : GroupKey(buf[i]) = k /\
                    \A j \in 1..(i - 1) : GroupKey(buf[j]) # k

\* C9: the groups are in first-seen order of the distinct paths, comments without a
\* path are in the group "general", and each group holds the comments of its path in
\* ascending line order, an absent line counting as 0 (stated of the inputs for
\* which groupByFile returns)
C9_GroupOrder ==
    (pc = "grouped" /\ ~res.threw) =>
        /\ {res.groups[g].path : g \in 1..Len(res.groups)}
             = {IF buf[i].path = <<>> THEN General ELSE buf[i].path : i \in 1..Len(buf)}
        /\ \A g, h \in 1..Len(res.groups) :
              g < h => FirstSeen(res.groups[g].path) < FirstSeen(res.groups[h].path)
        /\ \A g \in 1..Len(res.groups) :
              LET cs == res.groups[g].comments
              IN  /\ {cs[k] : k \in 1..Len(cs)}
                       = {buf[i] : i \in {j \in 1..Len(buf) :
                                            GroupKey(buf[j]) = res.groups[g].path}}
                  /\ \A k \in 1..(Len(cs) - 1) :
                        LineOrZero(cs[k]) <= LineOrZero(cs[k + 1])

-----------------------------------------------------------------------------
(* Properties of parseGreptileComments *)

\* A block has a field when a line of its inner text starts with the field's label
\* (the documented format has one label at the start of each line)
HasField(text, label) ==
    LET ls == SplitLines(text, <<>>)
    IN  \E k \in 1..Len(ls) : MatchesAt(TrimStart(ls[k]), 1, label)

\* The indices of the blocks of the body in buf that have a path and a comment field
CompleteBlocks ==
    {i \in 1..Len(buf.body) :
        /\ buf.body[i].kind = "block"
        /\ HasField(buf.body[i].text, PathLabel)
        /\ HasField(buf.body[i].text, CommentLabel)}

\* The k-th complete block of the body, in scan order
KthComplete(k) ==
    CHOOSE i \in CompleteBlocks : Cardinality({j \in CompleteBlocks : j <= i}) = k

\* One comment per block with a path and a comment field, none for the other blocks
\* (which do not stop the scan), none for a body without a block
OnePerCompleteBlock ==
    pc = "parsed" => Len(res) = Cardinality(CompleteBlocks)

\* The comment of a block without a line field has no line
LineAbsentWhenMissing ==
    (pc = "parsed" /\ Len(res) = Cardinality(CompleteBlocks)) =>
        \A k \in 1..Len(res) :
            ~HasField(buf.body[KthComplete(k)].text, LineLabel) => res[k].line = NoLine

\* Every comment is unresolved and has the id source id + ordinal: distinct ids
UnresolvedWithOrdinalIds ==
    pc = "parsed" =>
        /\ \A k \in 1..Len(res) : ~res[k].isResolved /\ res[k].id = buf.id + (k - 1)
        /\ \A k, l \in 1..Len(res) : k # l => res[k].id # res[l].id

\* C11: parseGreptileComments yields exactly one comment per block that has both a path
\* field and a comment field, in scan order, with no line when the block has no line
\* field; a block missing either field is skipped and the scan goes on; a body with no
\* block yields nothing; every comment is unresolved and has id = source id + ordinal,
\* so the ids of one body are pairwise distinct
C11_Extraction ==
    /\ OnePerCompleteBlock
    /\ LineAbsentWhenMissing
    /\ UnresolvedWithOrdinalIds

====
